---------------------------- MODULE Spec2Model ----------------------------
(*
  Model of the hostel_management Django application: the tenant-scoped access
  gate (hostel/views.py pg_required), the billing derivation
  (hostel/models.py MonthlyBill.save), the bill generation batch
  (hostel/views.py generate_bills) and guest check-in / registration.

  Money is counted in whole units of the smallest currency step (Decimal
  arithmetic with two places is exact, so integers behave the same).
  A billing month is <<year, month>> (the first day of the month), a due
  date is <<year, month, day>>.  A database table whose rows may repeat is a
  bag of records.
*)
EXTENDS Integers, FiniteSets, Sequences, Bags, TLC

\* ------------------------------------------------------------------ bounds

\* Largest rent a check-in form posts.
MaxRent == 1
\* Largest value of a charge component or of a posted paid_amount.
MaxAmount == 1

\* ------------------------------------------------------------ the universe

NULL == "NULL"

Users == {"root", "adminA", "adminB", "g1", "g2"}
GuestNames == {"g1", "g2"}
PGs == {"pgA", "pgB"}
Rooms == {"r1", "r2", "r3"}
Roles == {"super_admin", "pg_admin", "guest"}

\* The authenticated users that send the requests of Spec: an owner of each PG
\* and a guest.
Requesters == {"adminA", "adminB", "g1"}

\* Month keys a request can post: two ordinary ones and the last month that
\* datetime can represent.
Months == {<<2024, 3>>, <<2024, 12>>, <<9999, 12>>}

Rents == 0 .. MaxRent
Amounts == (0 - 1) .. MaxAmount

ChargeFields == {"rent_amount", "electricity_amount", "water_charges",
                 "maintenance_charges", "other_charges"}

VARIABLES
    user,       \* custom_user table: a function from the stored users to rows
    pg,         \* pg table: from the stored PGs (the key stands for the slug)
    room,       \* room table: from the stored rooms
    profile,    \* guest_profile table: from the users that have a profile
    bills,      \* monthly_bill table: a bag of MonthlyBill rows
    proc,       \* the generate_bills requests in flight (interleaved runs)
    resp,       \* what the last finished request returned
    deposit,    \* security_deposit table: from the guests that have one
    history,    \* guest_history table: a bag of GuestHistory rows
    issue,      \* issue table: from the stored issues
    session,    \* the user the browser session is logged in as, or NULL
    expense     \* expense table: a bag of Expense rows

vars == <<user, pg, room, profile, bills, proc, resp,
         deposit, history, issue, session, expense>>

\* ------------------------------------------------------------ model rows

CustomUser(role, p, approved, super) ==
    [role |-> role, pg |-> p, is_approved |-> approved, is_superuser |-> super]

is_pg_admin(u) == user[u].role = "pg_admin"

is_guest(u) == user[u].role = "guest"

\* The reverse side of PG.owner (a OneToOneField): the PG the user owns, or NULL
\* when hasattr(user, 'owned_pg') is false.
owned_pg(u) ==
    IF \E p \in DOMAIN pg : pg[p].owner = u
    THEN CHOOSE p \in DOMAIN pg : pg[p].owner = u
    ELSE NULL

\* GuestProfile.is_active
is_active(g) == profile[g].check_out_date = NULL

\* Room.get_current_occupants
get_current_occupants(r) ==
    {g \in DOMAIN profile : profile[g].room = r /\ is_active(g)}

\* Room.is_full
is_full(r) == Cardinality(get_current_occupants(r)) >= room[r].capacity

\* ------------------------------------------------------- the access gate

\* pg_required with the owner's is_approved left out of the first condition.
pg_required_unapproved_owner(u, t) ==
    IF user[u].is_superuser THEN "ALLOW"
    ELSE IF is_pg_admin(u)
            /\ owned_pg(u) # NULL
            /\ owned_pg(u) = t
            /\ pg[owned_pg(u)].is_active
        THEN "ALLOW"
    ELSE IF is_pg_admin(u) /\ ~user[u].is_approved THEN "DENY_NOT_APPROVED"
    ELSE IF is_pg_admin(u) /\ owned_pg(u) = NULL THEN "ERROR"
    ELSE IF is_pg_admin(u) /\ ~pg[owned_pg(u)].is_active THEN "DENY_NOT_ACTIVE"
    ELSE IF is_guest(u)
            /\ user[u].pg # NULL
            /\ user[u].pg = t
            /\ user[u].is_approved
        THEN "ALLOW"
    ELSE IF is_guest(u) /\ ~user[u].is_approved THEN "DENY_GUEST_NOT_APPROVED"
    ELSE "FORBIDDEN"

\* pg_required with the guest's tenant not compared with the target.
pg_required_any_tenant(u, t) ==
    IF user[u].is_superuser THEN "ALLOW"
    ELSE IF is_pg_admin(u)
            /\ owned_pg(u) # NULL
            /\ owned_pg(u) = t
            /\ user[u].is_approved
            /\ pg[owned_pg(u)].is_active
        THEN "ALLOW"
    ELSE IF is_pg_admin(u) /\ ~user[u].is_approved THEN "DENY_NOT_APPROVED"
    ELSE IF is_pg_admin(u) /\ owned_pg(u) = NULL THEN "ERROR"
    ELSE IF is_pg_admin(u) /\ ~pg[owned_pg(u)].is_active THEN "DENY_NOT_ACTIVE"
    ELSE IF is_guest(u)
            /\ user[u].pg # NULL
            /\ user[u].is_approved
        THEN "ALLOW"
    ELSE IF is_guest(u) /\ ~user[u].is_approved THEN "DENY_GUEST_NOT_APPROVED"
    ELSE "FORBIDDEN"

\* hostel/views.py pg_required for an authenticated requester u and an existing
\* target PG t.  "ERROR" is the unhandled RelatedObjectDoesNotExist raised by
\* request.user.owned_pg when the requester owns no PG.
pg_required(u, t) ==
    IF user[u].is_superuser THEN "ALLOW"
    ELSE IF is_pg_admin(u)
            /\ owned_pg(u) # NULL
            /\ owned_pg(u) = t
            /\ user[u].is_approved
            /\ pg[owned_pg(u)].is_active
        THEN "ALLOW"
    ELSE IF is_pg_admin(u) /\ ~user[u].is_approved THEN "DENY_NOT_APPROVED"
    ELSE IF is_pg_admin(u) /\ owned_pg(u) = NULL THEN "ERROR"
    ELSE IF is_pg_admin(u) /\ ~pg[owned_pg(u)].is_active THEN "DENY_NOT_ACTIVE"
    ELSE IF is_guest(u)
            /\ user[u].pg # NULL
            /\ user[u].pg = t
            /\ user[u].is_approved
        THEN "ALLOW"
    ELSE IF is_guest(u) /\ ~user[u].is_approved THEN "DENY_GUEST_NOT_APPROVED"
    ELSE "FORBIDDEN"

\* ------------------------------------------------------------- billing

Total(b) ==
    b.rent_amount + b.electricity_amount + b.water_charges
        + b.maintenance_charges + b.other_charges

\* MonthlyBill.save with the total added onto the stored one.
MonthlyBill_save_accumulating(b) ==
    LET total == b.total_amount + Total(b)
        status == IF b.paid_amount >= total THEN "Paid"
                  ELSE IF b.paid_amount > 0 THEN "Partially_Paid"
                  ELSE "Unpaid"
    IN [b EXCEPT !.total_amount = total, !.status = status]

\* MonthlyBill.save with the first comparison strict.
MonthlyBill_save_strict(b) ==
    LET total == Total(b)
        status == IF b.paid_amount > total THEN "Paid"
                  ELSE IF b.paid_amount > 0 THEN "Partially_Paid"
                  ELSE "Unpaid"
    IN [b EXCEPT !.total_amount = total, !.status = status]

\* MonthlyBill.save with the second comparison not strict.
MonthlyBill_save_zero_partial(b) ==
    LET total == Total(b)
        status == IF b.paid_amount >= total THEN "Paid"
                  ELSE IF b.paid_amount >= 0 THEN "Partially_Paid"
                  ELSE "Unpaid"
    IN [b EXCEPT !.total_amount = total, !.status = status]

\* MonthlyBill.save: the row that is written for the instance b.
MonthlyBill_save(b) ==
    LET total == Total(b)
        status == IF b.paid_amount >= total THEN "Paid"
                  ELSE IF b.paid_amount > 0 THEN "Partially_Paid"
                  ELSE "Unpaid"
    IN [b EXCEPT !.total_amount = total, !.status = status]

\* MonthlyBill.objects.create(guest=, month_year=, rent_amount=, due_date=): the
\* other fields take their defaults, total_amount is unset (0 here) until save
\* fills it.
MonthlyBill_create(g, m, rent, due) ==
    MonthlyBill_save(
        [guest |-> g, month_year |-> m, rent_amount |-> rent,
         electricity_amount |-> 0, water_charges |-> 0,
         maintenance_charges |-> 0, other_charges |-> 0,
         total_amount |-> 0, paid_amount |-> 0, status |-> "Unpaid",
         due_date |-> due, paid_date |-> NULL, payment_method |-> NULL])

\* date.replace raises ValueError when the year leaves datetime's range.
due_date_raises(bill_date) == bill_date[2] = 12 /\ bill_date[1] + 1 > 9999

\* The due date without the year rollover at December.
due_date_no_rollover(bill_date) ==
    <<bill_date[1], (bill_date[2] % 12) + 1, 15>>

\* The due date generate_bills computes: the 15th of the month after bill_date.
due_date_for(bill_date) ==
    IF bill_date[2] = 12
    THEN <<bill_date[1] + 1, 1, 15>>
    ELSE <<bill_date[1], bill_date[2] + 1, 15>>

\* The exists-check filtering on due_date instead of month_year.
bill_exists_wrong_field(tbl, g, m) ==
    \E b \in BagToSet(tbl) : b.guest = g /\ b.due_date = m

\* MonthlyBill.objects.filter(guest=g, month_year=m).exists() on the table tbl
bill_exists(tbl, g, m) ==
    \E b \in BagToSet(tbl) : b.guest = g /\ b.month_year = m

\* The table without its unique constraint: no INSERT is refused.
unique_together_absent(tbl, b) == FALSE

\* unique_together = ['guest', 'month_year']: the INSERT of row b into tbl is
\* refused with IntegrityError when a row with the same key is stored.
unique_together(tbl, b) ==
    \E c \in BagToSet(tbl) : c.guest = b.guest /\ c.month_year = b.month_year

insert_bill(tbl, b) == tbl (+) SetToBag({b})

\* The guests of the PG without the check_out_date filter.
active_guests_unfiltered(p) ==
    {g \in DOMAIN profile : user[g].pg = p}

\* GuestProfile.objects.filter(user__pg=p, check_out_date__isnull=True)
active_guests(p) ==
    {g \in DOMAIN profile : user[g].pg = p /\ is_active(g)}


\* ------------------------------------------------------------ responses

NoMonth == <<>>

Resp(op, p, m, outcome, n) ==
    [op |-> op, pg |-> p, month |-> m, outcome |-> outcome, count |-> n]

EmptyFn == [x \in {} |-> NULL]

\* -------------------------------------------------- generate_bills (whole)

\* The for loop of generate_bills over the guests still to visit, on the table
\* tbl with n bills created so far.  The result is the table as the request
\* leaves it, the count, and the exception that ended the loop, if any.
RECURSIVE generate_loop(_, _, _, _)
generate_loop(todo, m, tbl, n) ==
    IF todo = {} THEN [bills |-> tbl, count |-> n, raised |-> "none"]
    ELSE LET g == CHOOSE x \in todo : TRUE
         IN IF bill_exists(tbl, g, m)
            THEN generate_loop(todo \ {g}, m, tbl, n)
            ELSE IF due_date_raises(m)
            THEN [bills |-> tbl, count |-> n, raised |-> "ValueError"]
            ELSE LET b == MonthlyBill_create(g, m, profile[g].rent_amount,
                                             due_date_for(m))
                 IN IF unique_together(tbl, b)
                    THEN [bills |-> tbl, count |-> n,
                          raised |-> "IntegrityError"]
                    ELSE generate_loop(todo \ {g}, m, insert_bill(tbl, b),
                                       n + 1)

\* POST <pg>/billing/generate/ with a month key that parses, by requester req,
\* run from start to end with no other request in between.
generate_bills(req, p, m) ==
    /\ req \in DOMAIN user
    /\ p \in DOMAIN pg
    /\ LET gate == pg_required(req, p)
           run == generate_loop(active_guests(p), m, bills, 0)
       IN IF gate # "ALLOW"
          THEN /\ resp' = Resp("generate_bills", p, m, gate, 0)
               /\ UNCHANGED bills
          ELSE IF run.raised # "none"
          THEN /\ resp' = Resp("generate_bills", p, m, run.raised, 0)
               /\ bills' = run.bills
          ELSE /\ resp' = Resp("generate_bills", p, m, "ok", run.count)
               /\ bills' = run.bills
    /\ UNCHANGED <<user, pg, room, profile, proc,
                 deposit, history, issue, session, expense>>

\* ----------------------------------------------------- guests come and go

\* GuestCheckInForm.is_valid for the posted username u and room r: the username
\* is free and the room is one of the form's queryset (of this PG, available).
GuestCheckInForm_is_valid(p, u, r) ==
    /\ u \notin DOMAIN user
    /\ r \in DOMAIN room
    /\ room[r].pg = p
    /\ room[r].is_available

\* The check-in dates the form posts.
CheckInDates == {"2024-03-01", "2024-03-02"}

\* The create call of guest_check_in that raises, if any: 0 is none, k is the
\* k-th create (user, profile, deposit, history) failing in the database or in
\* the file storage.
NoFailure == {0}
FailAt == {0, 1, 2, 3, 4}

\* What a check-in request may post besides username, room and rent, and what
\* may fail while it is served.
CheckInDefaults ==
    [dates |-> {"2024-03-01"}, paid |-> {TRUE}, deposits |-> {0},
     fail |-> NoFailure]
CheckInAll ==
    [dates |-> CheckInDates, paid |-> BOOLEAN, deposits |-> Rents,
     fail |-> FailAt]

NoForm == <<>>

\* The response of guest_check_in with the form it was posted.
CheckInResp(p, outcome, form) ==
    [op |-> "guest_check_in", pg |-> p, month |-> NoMonth,
     outcome |-> outcome, count |-> 0, form |-> form]

\* SecurityDeposit.objects.create that dates the deposit paid or not.
SecurityDeposit_create_always_dated(amount, deposit_paid, date) ==
    [amount |-> amount,
     status |-> IF deposit_paid THEN "Paid" ELSE "Pending",
     paid_date |-> date]

\* SecurityDeposit.objects.create of guest_check_in.
SecurityDeposit_create(amount, deposit_paid, date) ==
    [amount |-> amount,
     status |-> IF deposit_paid THEN "Paid" ELSE "Pending",
     paid_date |-> IF deposit_paid THEN date ELSE NULL]

\* GuestHistory.objects.create of guest_check_in.
GuestHistory_create(g, r, rent, date) ==
    [guest |-> g, room |-> r, rent_at_the_time |-> rent,
     from_date |-> date, to_date |-> date, reason |-> "room_change"]

\* POST <pg>/guests/check-in/ by requester req; the form posts the username
\* u, the room r, the rent, the check-in date and the deposit, drawn from in.
\* The four creates run one after the other, each committed as it is made; when
\* create k raises, the request ends there with the earlier rows stored.
guest_check_in(req, p, in) ==
    /\ req \in DOMAIN user
    /\ p \in DOMAIN pg
    /\ LET gate == pg_required(req, p)
       IN IF gate # "ALLOW"
          THEN /\ resp' = CheckInResp(p, gate, NoForm)
               /\ UNCHANGED <<user, profile, deposit, history>>
          ELSE \E u \in GuestNames, r \in Rooms :
                 IF ~GuestCheckInForm_is_valid(p, u, r)
                 THEN /\ resp' = CheckInResp(p, "form_invalid", NoForm)
                      /\ UNCHANGED <<user, profile, deposit, history>>
                 ELSE \E rent \in Rents, date \in in.dates, paid \in in.paid,
                         amount \in in.deposits, k \in in.fail :
                      LET done(step) == k = 0 \/ k > step
                      IN
                      /\ user' = IF done(1)
                                 THEN user @@
                                   (u :> CustomUser("guest", p, TRUE, FALSE))
                                 ELSE user
                      /\ profile' = IF done(2)
                                    THEN profile @@
                                      (u :> [room |-> r, rent_amount |-> rent,
                                             check_out_date |-> NULL])
                                    ELSE profile
                      /\ deposit' = IF done(3)
                                    THEN deposit @@
                                      (u :> SecurityDeposit_create(
                                                amount, paid, date))
                                    ELSE deposit
                      /\ history' = IF done(4)
                                    THEN history (+) SetToBag(
                                      {GuestHistory_create(u, r, rent, date)})
                                    ELSE history
                      /\ resp' = CheckInResp(
                           p, IF k = 0 THEN "ok" ELSE "server_error",
                           [username |-> u, room |-> r, rent_amount |-> rent,
                            check_in_date |-> date, deposit_paid |-> paid,
                            security_deposit |-> amount])
    /\ UNCHANGED <<pg, room, bills, proc, issue, session, expense>>

\* GuestRegistrationForm.is_valid for the posted username u: the username is
\* free (the form posts the user fields and the emergency contact the view
\* reads).
GuestRegistrationForm_is_valid(u) == u \notin DOMAIN user

Methods == {"GET", "POST"}

\* The response of guest_register with the method and username it was sent.
RegisterResp(p, outcome, method, u) ==
    [op |-> "guest_register", pg |-> p, month |-> NoMonth,
     outcome |-> outcome, count |-> 0, method |-> method, username |-> u]

\* guest_register without the test of the PG's is_active flag.
guest_register_ignoring_active(method, p, u) ==
    /\ p \in DOMAIN pg
    /\ IF method # "POST"
       THEN /\ resp' = RegisterResp(p, "form_shown", method, u)
            /\ UNCHANGED <<user, profile>>
       ELSE IF ~GuestRegistrationForm_is_valid(u)
       THEN /\ resp' = RegisterResp(p, "form_invalid", method, u)
            /\ UNCHANGED <<user, profile>>
       ELSE /\ user' = user @@ (u :> CustomUser("guest", p, FALSE, FALSE))
            /\ profile' = profile @@
                 (u :> [room |-> NULL, rent_amount |-> 0,
                        check_out_date |-> NULL])
            /\ resp' = RegisterResp(p, "ok", method, u)
    /\ UNCHANGED <<pg, room, bills, proc,
                 deposit, history, issue, session, expense>>

\* GET or POST <pg>/register/: the guest registers themself with username u.
guest_register(method, p, u) ==
    /\ p \in DOMAIN pg
    /\ IF ~pg[p].is_active
       THEN /\ resp' = RegisterResp(p, "not_accepting", method, u)
            /\ UNCHANGED <<user, profile>>
       ELSE IF method # "POST"
       THEN /\ resp' = RegisterResp(p, "form_shown", method, u)
            /\ UNCHANGED <<user, profile>>
       ELSE IF ~GuestRegistrationForm_is_valid(u)
       THEN /\ resp' = RegisterResp(p, "form_invalid", method, u)
            /\ UNCHANGED <<user, profile>>
       ELSE /\ user' = user @@ (u :> CustomUser("guest", p, FALSE, FALSE))
            /\ profile' = profile @@
                 (u :> [room |-> NULL, rent_amount |-> 0,
                        check_out_date |-> NULL])
            /\ resp' = RegisterResp(p, "ok", method, u)
    /\ UNCHANGED <<pg, room, bills, proc,
                 deposit, history, issue, session, expense>>

\* The admin site's GuestProfile change form: staff record a check-out date.
admin_check_out(g) ==
    /\ g \in DOMAIN profile
    /\ is_active(g)
    /\ profile' = [profile EXCEPT ![g].check_out_date = "date"]
    /\ resp' = Resp("admin_check_out", NULL, NoMonth, "ok", 0)
    /\ UNCHANGED <<user, pg, room, bills, proc,
                 deposit, history, issue, session, expense>>

\* ------------------------------------------------------ the specification

\* Two activated PGs with approved owners, the platform admin, three rooms
\* (r3 is marked unavailable) and no guest yet.
InitUsers ==
    ("root" :> CustomUser("super_admin", NULL, TRUE, TRUE))
    @@ ("adminA" :> CustomUser("pg_admin", "pgA", TRUE, FALSE))
    @@ ("adminB" :> CustomUser("pg_admin", "pgB", TRUE, FALSE))

InitPGs ==
    ("pgA" :> [owner |-> "adminA", is_active |-> TRUE])
    @@ ("pgB" :> [owner |-> "adminB", is_active |-> TRUE])

InitRooms ==
    ("r1" :> [pg |-> "pgA", capacity |-> 1, is_available |-> TRUE])
    @@ ("r2" :> [pg |-> "pgB", capacity |-> 2, is_available |-> TRUE])
    @@ ("r3" :> [pg |-> "pgA", capacity |-> 1, is_available |-> FALSE])

Init ==
    /\ user = InitUsers
    /\ pg = InitPGs
    /\ room = InitRooms
    /\ profile = EmptyFn
    /\ bills = EmptyBag
    /\ proc = EmptyFn
    /\ deposit = EmptyFn
    /\ history = EmptyBag
    /\ issue = EmptyFn
    /\ session = NULL
    /\ expense = EmptyBag
    /\ resp = Resp("none", NULL, NoMonth, "none", 0)

Next ==
    \/ \E req \in Requesters, p \in PGs, m \in Months :
          generate_bills(req, p, m)
    \/ \E req \in Requesters, p \in PGs :
          guest_check_in(req, p, CheckInDefaults)
    \/ \E method \in Methods, p \in PGs, u \in GuestNames :
          guest_register(method, p, u)
    \/ \E g \in GuestNames : admin_check_out(g)

Spec == Init /\ [][Next]_vars

\* ------------------------------------------------- one bill's lifetime

\* The month the billing specification generates bills for.
BillingMonth == <<2024, 3>>

\* The payment methods a request posts; NULL is a request without the field.
PaymentMethods == {"cash", "upi", NULL}

\* get_status_display returning the stored value.
get_status_display_stored(status) == status

\* MonthlyBill.get_status_display: the label STATUS_CHOICES gives the value.
get_status_display(status) ==
    IF status = "Partially_Paid" THEN "Partially Paid" ELSE status

\* MonthlyBill.get_balance_amount
get_balance_amount(b) == b.total_amount - b.paid_amount

\* The JSON of a successful update_bill_payment for the saved row, with the
\* fields the request posted.
PaymentResp(p, saved, paid, method) ==
    [op |-> "update_bill_payment", pg |-> p, month |-> saved.month_year,
     outcome |-> "ok", count |-> 0, guest |-> saved.guest,
     posted |-> [paid_amount |-> paid, payment_method |-> method],
     success |-> TRUE,
     new_status |-> get_status_display(saved.status),
     balance |-> ToString(get_balance_amount(saved))]

\* update_bill_payment that looks the bill up by its id alone.
update_bill_payment_any_bill(req, p, b, paid, method) ==
    /\ req \in DOMAIN user
    /\ p \in DOMAIN pg
    /\ BagIn(b, bills)
    /\ LET gate == pg_required(req, p)
           saved == MonthlyBill_save(
                      [b EXCEPT !.paid_amount = paid,
                                !.payment_method = method,
                                !.paid_date = IF paid > 0 THEN "today" ELSE @])
       IN IF gate # "ALLOW"
          THEN /\ resp' = Resp("update_bill_payment", p, b.month_year, gate, 0)
               /\ UNCHANGED bills
          ELSE /\ bills' = (bills (-) SetToBag({b})) (+) SetToBag({saved})
               /\ resp' = PaymentResp(p, saved, paid, method)
    /\ UNCHANGED <<user, pg, room, profile, proc,
                 deposit, history, issue, session, expense>>

\* POST <pg>/ajax/update-bill/<id>/ with a paid_amount that parses and the
\* payment_method posted: b is the stored row the id names, looked up among
\* the bills of this PG's guests.
update_bill_payment(req, p, b, paid, method) ==
    /\ req \in DOMAIN user
    /\ p \in DOMAIN pg
    /\ BagIn(b, bills)
    /\ user[b.guest].pg = p
    /\ LET gate == pg_required(req, p)
           saved == MonthlyBill_save(
                      [b EXCEPT !.paid_amount = paid,
                                !.payment_method = method,
                                !.paid_date = IF paid > 0 THEN "today" ELSE @])
       IN IF gate # "ALLOW"
          THEN /\ resp' = Resp("update_bill_payment", p, b.month_year, gate, 0)
               /\ UNCHANGED bills
          ELSE /\ bills' = (bills (-) SetToBag({b})) (+) SetToBag({saved})
               /\ resp' = PaymentResp(p, saved, paid, method)
    /\ UNCHANGED <<user, pg, room, profile, proc,
                 deposit, history, issue, session, expense>>

\* The admin site's MonthlyBill change form: staff set charge field f of the
\* stored row b to v (total_amount is read-only there) and the row is saved.
\* Posting the value the field already has saves the row with unchanged inputs.
admin_change_bill(b, f, v) ==
    /\ BagIn(b, bills)
    /\ bills' = (bills (-) SetToBag({b}))
           (+) SetToBag({MonthlyBill_save([b EXCEPT ![f] = v])})
    /\ resp' = Resp("admin_change_bill", user[b.guest].pg, b.month_year, "ok", 0)
    /\ UNCHANGED <<user, pg, room, profile, proc,
                 deposit, history, issue, session, expense>>

\* One guest of pgA, checked in at some rent (zero included: the form sets no
\* minimum), and no bill yet.
InitBilling ==
    /\ \E rent \in Rents :
          profile = ("g1" :> [room |-> "r1", rent_amount |-> rent,
                              check_out_date |-> NULL])
    /\ user = InitUsers @@ ("g1" :> CustomUser("guest", "pgA", TRUE, FALSE))
    /\ pg = InitPGs
    /\ room = InitRooms
    /\ bills = EmptyBag
    /\ proc = EmptyFn
    /\ deposit = EmptyFn
    /\ history = EmptyBag
    /\ issue = EmptyFn
    /\ session = NULL
    /\ expense = EmptyBag
    /\ resp = Resp("none", NULL, NoMonth, "none", 0)

NextBilling ==
    \/ \E req \in {"adminA", "adminB"} :
          generate_bills(req, "pgA", BillingMonth)
    \/ \E req \in {"adminA", "adminB"}, b \in BagToSet(bills), paid \in Amounts,
          method \in {"cash"} :
          update_bill_payment(req, "pgA", b, paid, method)
    \/ \E b \in BagToSet(bills), f \in ChargeFields, v \in Amounts :
          admin_change_bill(b, f, v)

SpecBilling == InitBilling /\ [][NextBilling]_vars

\* ----------------------------------------------------------------------
\* Claims about the billing derivation, checked under SpecBilling
\* ----------------------------------------------------------------------

\* Two rows are the same bill with the same inputs to the derivation.
SameInputs(b, c) ==
    /\ b.guest = c.guest
    /\ b.month_year = c.month_year
    /\ \A f \in ChargeFields : b[f] = c[f]
    /\ b.paid_amount = c.paid_amount

\* C1: after every MonthlyBill.save the stored total_amount is the sum of the
\* five charge components as they are now, whatever total was stored before;
\* and a save that changes none of the inputs leaves total_amount and status
\* as they were.
C1_TotalIsSumOfComponents ==
    /\ [](\A b \in BagToSet(bills) :
             b.total_amount = b.rent_amount + b.electricity_amount
                 + b.water_charges + b.maintenance_charges + b.other_charges)
    /\ [][\A b \in BagToSet(bills), c \in BagToSet(bills') :
             SameInputs(b, c)
             => (c.total_amount = b.total_amount /\ c.status = b.status)]_vars

\* C1 witness: a bill saved after a charge was changed: its stored total is
\* above the rent it was created with.
C1_Witness ==
    /\ resp.op = "admin_change_bill"
    /\ \E b \in BagToSet(bills) :
          /\ b.electricity_amount > 0
          /\ b.other_charges > 0
          /\ b.total_amount > b.rent_amount

\* C2: after every MonthlyBill.save, a bill with paid_amount >= total_amount
\* has status Paid and a bill with 0 < paid_amount < total_amount has status
\* Partially_Paid.
C2_PaidAndPartiallyPaid ==
    \A b \in BagToSet(bills) :
        /\ b.paid_amount >= b.total_amount => b.status = "Paid"
        /\ (0 < b.paid_amount /\ b.paid_amount < b.total_amount)
              => b.status = "Partially_Paid"

\* C2 witness: a payment that covers a positive total exactly.
C2_Witness ==
    /\ resp.op = "update_bill_payment"
    /\ \E b \in BagToSet(bills) :
          b.total_amount > 0 /\ b.paid_amount = b.total_amount

\* C3 as stated: after every MonthlyBill.save a bill with paid_amount = 0 has
\* status Unpaid, for every total, a total of zero included.
C3_UnpaidWheneverNothingPaid ==
    \A b \in BagToSet(bills) : b.paid_amount = 0 => b.status = "Unpaid"

\* C3 as amended: after every MonthlyBill.save a bill with paid_amount = 0 and
\* a total above zero has status Unpaid (with a total of zero or less,
\* paid_amount >= total_amount holds and the status is Paid).
C3_UnpaidWhenNothingPaidOfPositiveTotal ==
    \A b \in BagToSet(bills) :
        /\ (b.paid_amount = 0 /\ b.total_amount > 0) => b.status = "Unpaid"
        /\ (b.paid_amount = 0 /\ b.total_amount <= 0) => b.status = "Paid"

\* C3 witness: a bill with a positive total of which nothing is paid.
C3_Witness ==
    \E b \in BagToSet(bills) :
        b.paid_amount = 0 /\ b.total_amount > 0 /\ b.status = "Unpaid"

\* ----------------------------------------------------------------------
\* Claims about the payment request, checked under SpecPayment
\* ----------------------------------------------------------------------

\* One bill of g1: payments by any method, and the electricity charge changed
\* on the admin site so that the total can exceed what is paid.
NextPayment ==
    \/ \E req \in {"adminA", "adminB"} :
          generate_bills(req, "pgA", BillingMonth)
    \/ \E req \in {"adminA", "adminB"}, b \in BagToSet(bills), paid \in Amounts,
          method \in PaymentMethods :
          update_bill_payment(req, "pgA", b, paid, method)
    \/ \E b \in BagToSet(bills), v \in Amounts :
          admin_change_bill(b, "electricity_amount", v)

SpecPayment == InitBilling /\ [][NextPayment]_vars

\* C19 as stated: a successful update_bill_payment stores the posted
\* paid_amount and payment_method on the bill, derives total_amount and status
\* anew, and answers success with new_status equal to the stored status and
\* balance equal to total_amount minus paid_amount of the stored bill.
C19_PaymentResponseStoredStatus ==
    [][(resp'.op = "update_bill_payment" /\ resp'.outcome = "ok")
       => \E c \in BagToSet(bills') :
             /\ c.guest = resp'.guest
             /\ c.month_year = resp'.month
             /\ c.paid_amount = resp'.posted.paid_amount
             /\ c.payment_method = resp'.posted.payment_method
             /\ c.total_amount = c.rent_amount + c.electricity_amount
                  + c.water_charges + c.maintenance_charges + c.other_charges
             /\ c.status = (IF c.paid_amount >= c.total_amount THEN "Paid"
                            ELSE IF c.paid_amount > 0 THEN "Partially_Paid"
                            ELSE "Unpaid")
             /\ resp'.success
             /\ resp'.new_status = c.status
             /\ resp'.balance = ToString(c.total_amount - c.paid_amount)]_vars

\* C19 as amended: a successful update_bill_payment stores the posted
\* paid_amount and payment_method on the bill, derives total_amount and status
\* anew, and answers success with new_status the display label of the stored
\* status (Paid, Unpaid, and "Partially Paid" for the stored Partially_Paid)
\* and balance the decimal string of total_amount minus paid_amount.
C19_PaymentResponseStatusLabel ==
    [][(resp'.op = "update_bill_payment" /\ resp'.outcome = "ok")
       => \E c \in BagToSet(bills') :
             /\ c.guest = resp'.guest
             /\ c.month_year = resp'.month
             /\ c.paid_amount = resp'.posted.paid_amount
             /\ c.payment_method = resp'.posted.payment_method
             /\ c.total_amount = c.rent_amount + c.electricity_amount
                  + c.water_charges + c.maintenance_charges + c.other_charges
             /\ c.status = (IF c.paid_amount >= c.total_amount THEN "Paid"
                            ELSE IF c.paid_amount > 0 THEN "Partially_Paid"
                            ELSE "Unpaid")
             /\ resp'.success
             /\ resp'.new_status = (IF c.status = "Partially_Paid"
                                    THEN "Partially Paid" ELSE c.status)
             /\ resp'.balance = ToString(c.total_amount - c.paid_amount)]_vars

\* C19 witness: a part payment by UPI was stored and answered with the label
\* of Partially_Paid and a balance still to pay.
C19_Witness ==
    /\ resp.op = "update_bill_payment"
    /\ resp.outcome = "ok"
    /\ resp.success
    /\ resp.new_status = "Partially Paid"
    /\ resp.posted.payment_method = "upi"
    /\ \E c \in BagToSet(bills) :
          /\ c.guest = resp.guest
          /\ c.status = "Partially_Paid"
          /\ c.payment_method = "upi"
          /\ resp.balance = ToString(c.total_amount - c.paid_amount)

\* ----------------------------------------------------------------------
\* Claims about bill generation and check-in, checked under Spec
\* ----------------------------------------------------------------------

\* The number of rows of tbl for guest g and month m.
BillCount(tbl, g, m) ==
    BagCardinality([b \in {c \in BagToSet(tbl) :
                              c.guest = g /\ c.month_year = m}
                      |-> CopiesIn(b, tbl)])

\* A step is a run of generate_bills whose handler body ran (the gate allowed it).
GenerateRan ==
    /\ resp'.op = "generate_bills"
    /\ resp'.outcome \in {"ok", "ValueError", "IntegrityError"}

\* C4: bill generation is idempotent: when generate_bills runs for a property
\* and month right after a completed run for the same property and month, the
\* second run completes, reports zero bills created and leaves the
\* monthly_bill table as the first run left it.
C4_GenerateIdempotent ==
    [][(/\ resp.op = "generate_bills"
        /\ resp.outcome = "ok"
        /\ GenerateRan
        /\ resp'.pg = resp.pg
        /\ resp'.month = resp.month)
       => (/\ resp'.outcome = "ok"
           /\ resp'.count = 0
           /\ bills' = bills)]_vars

\* C4 witness: a run that found every active guest of a PG already billed for
\* the month: it completed with count 0 although the PG has an active guest
\* with a bill for that month.
C4_Witness ==
    /\ resp.op = "generate_bills"
    /\ resp.outcome = "ok"
    /\ resp.count = 0
    /\ \E g \in active_guests(resp.pg) : bill_exists(bills, g, resp.month)

\* The guests of property p whose check_out_date is null.
ActiveGuestsOf(p) ==
    {g \in DOMAIN profile : user[g].pg = p /\ profile[g].check_out_date = NULL}

\* C5: when generate_bills completes for a property and a month, every active
\* guest of the property (null check_out_date) has exactly one bill for the
\* month; the run removes no bill; every bill it creates is for an active guest
\* of that property and that month, carries the guest's current rent_amount
\* with every other charge and paid_amount zero; and the reported count is the
\* number of bills the run created.
C5_GeneratePostcondition ==
    [][(GenerateRan /\ resp'.outcome = "ok")
       => LET p == resp'.pg
              m == resp'.month
              created == bills' (-) bills
          IN /\ bills \sqsubseteq bills'
             /\ \A g \in ActiveGuestsOf(p) : BillCount(bills', g, m) = 1
             /\ \A b \in BagToSet(created) :
                   /\ b.guest \in ActiveGuestsOf(p)
                   /\ b.month_year = m
                   /\ b.rent_amount = profile[b.guest].rent_amount
                   /\ b.electricity_amount = 0
                   /\ b.water_charges = 0
                   /\ b.maintenance_charges = 0
                   /\ b.other_charges = 0
                   /\ b.paid_amount = 0
             /\ resp'.count = BagCardinality(created)]_vars

\* C5 witness: a completed run that created a bill while a guest who is checked
\* out or belongs to another property stays without a bill for that month.
C5_Witness ==
    /\ resp.op = "generate_bills"
    /\ resp.outcome = "ok"
    /\ resp.count >= 1
    /\ \E g \in DOMAIN profile :
          /\ ~(g \in ActiveGuestsOf(resp.pg))
          /\ ~bill_exists(bills, g, resp.month)

\* C6: every bill created by generate_bills for billing month (y, m) is due on
\* the 15th of the following calendar month: (y, m+1, 15) when m < 12 and
\* (y+1, 1, 15) when m = 12.
C6_DueDateNextMonth15 ==
    \A b \in BagToSet(bills) :
        LET y == b.month_year[1]
            m == b.month_year[2]
        IN b.due_date = IF m < 12 THEN <<y, m + 1, 15>> ELSE <<y + 1, 1, 15>>

\* C6 witness: bills exist for a December (due 15 January of the next year)
\* and for a March (due 15 April of the same year).
C6_Witness ==
    /\ \E b \in BagToSet(bills) :
          b.month_year = <<2024, 12>> /\ b.due_date = <<2025, 1, 15>>
    /\ \E b \in BagToSet(bills) :
          b.month_year = <<2024, 3>> /\ b.due_date = <<2024, 4, 15>>

\* C8: after any sequence of check-ins every room's number of active occupants
\* (GuestProfiles with null check_out_date) is at most its capacity, a check-in
\* into a full room being rejected.
C8_OccupancyWithinCapacity ==
    \A r \in DOMAIN room :
        Cardinality(get_current_occupants(r)) <= room[r].capacity

\* ----------------------------------------- generate_bills, step by step

\* The workers that serve requests at the same time.
Workers == {"w1", "w2"}

Idle == [pc |-> "idle", pg |-> NULL, month |-> NoMonth, todo |-> {},
         guest |-> NULL, count |-> 0]

\* Worker w takes a generate_bills request: the gate, then the query for the
\* active guests, whose rows the for loop will walk.
gen_start(w, req, p, m) ==
    /\ proc[w].pc = "idle"
    /\ req \in DOMAIN user
    /\ p \in DOMAIN pg
    /\ LET gate == pg_required(req, p)
       IN IF gate # "ALLOW"
          THEN /\ resp' = Resp("generate_bills", p, m, gate, 0)
               /\ UNCHANGED proc
          ELSE /\ proc' = [proc EXCEPT ![w] =
                    [pc |-> "loop", pg |-> p, month |-> m,
                     todo |-> active_guests(p), guest |-> NULL, count |-> 0]]
               /\ UNCHANGED resp
    /\ UNCHANGED <<user, pg, room, profile, bills,
                 deposit, history, issue, session, expense>>

\* The head of the for loop: the next guest and the exists() query for it, or
\* the end of the request when no guest is left.
gen_check(w) ==
    /\ proc[w].pc = "loop"
    /\ IF proc[w].todo = {}
       THEN /\ resp' = Resp("generate_bills", proc[w].pg, proc[w].month, "ok",
                            proc[w].count)
            /\ proc' = [proc EXCEPT ![w] = Idle]
       ELSE \E g \in proc[w].todo :
              IF bill_exists(bills, g, proc[w].month)
              THEN /\ proc' = [proc EXCEPT ![w].todo = @ \ {g}]
                   /\ UNCHANGED resp
              ELSE IF due_date_raises(proc[w].month)
              THEN /\ resp' = Resp("generate_bills", proc[w].pg, proc[w].month,
                                   "ValueError", 0)
                   /\ proc' = [proc EXCEPT ![w] = Idle]
              ELSE /\ proc' = [proc EXCEPT ![w].pc = "create", ![w].guest = g,
                                           ![w].todo = @ \ {g}]
                   /\ UNCHANGED resp
    /\ UNCHANGED <<user, pg, room, profile, bills,
                 deposit, history, issue, session, expense>>

\* MonthlyBill.objects.create for the guest whose exists() query found nothing:
\* the INSERT, which the table's unique constraint may refuse.
gen_create(w) ==
    /\ proc[w].pc = "create"
    /\ LET b == MonthlyBill_create(proc[w].guest, proc[w].month,
                                   profile[proc[w].guest].rent_amount,
                                   due_date_for(proc[w].month))
       IN IF unique_together(bills, b)
          THEN /\ resp' = Resp("generate_bills", proc[w].pg, proc[w].month,
                               "IntegrityError", 0)
               /\ proc' = [proc EXCEPT ![w] = Idle]
               /\ UNCHANGED bills
          ELSE /\ bills' = insert_bill(bills, b)
               /\ proc' = [proc EXCEPT ![w].pc = "loop", ![w].guest = NULL,
                                       ![w].count = @ + 1]
               /\ UNCHANGED resp
    /\ UNCHANGED <<user, pg, room, profile,
                 deposit, history, issue, session, expense>>

\* Two active guests of pgA, no bill, both workers idle.
InitRace ==
    /\ user = InitUsers
          @@ ("g1" :> CustomUser("guest", "pgA", TRUE, FALSE))
          @@ ("g2" :> CustomUser("guest", "pgA", TRUE, FALSE))
    /\ pg = InitPGs
    /\ room = InitRooms
    /\ profile = ("g1" :> [room |-> "r1", rent_amount |-> 1,
                           check_out_date |-> NULL])
          @@ ("g2" :> [room |-> "r1", rent_amount |-> 0,
                       check_out_date |-> NULL])
    /\ bills = EmptyBag
    /\ proc = [w \in Workers |-> Idle]
    /\ deposit = EmptyFn
    /\ history = EmptyBag
    /\ issue = EmptyFn
    /\ session = NULL
    /\ expense = EmptyBag
    /\ resp = Resp("none", NULL, NoMonth, "none", 0)

NextRace ==
    \/ \E w \in Workers, req \in {"adminA", "adminB"}, m \in Months :
          gen_start(w, req, "pgA", m)
    \/ \E w \in Workers : gen_check(w)
    \/ \E w \in Workers : gen_create(w)

SpecRace == InitRace /\ [][NextRace]_vars

\* ----------------------------------------------------------------------
\* Claims about interleaved bill generation, checked under SpecRace
\* ----------------------------------------------------------------------

\* C7: in every reachable state, the states reached by two generate_bills runs
\* for the same property and month whose exists-checks and creates interleave
\* included, there is at most one MonthlyBill per (guest, month_year) pair.
C7_OneBillPerGuestMonth ==
    \A b \in BagToSet(bills) :
        /\ CopiesIn(b, bills) = 1
        /\ \A c \in BagToSet(bills) :
              (c.guest = b.guest /\ c.month_year = b.month_year) => c = b

\* C7 witness: two runs interleaved so that one run's create came after the
\* other run's create for the same guest and month, and was refused.
C7_Witness ==
    /\ resp.op = "generate_bills"
    /\ resp.outcome = "IntegrityError"
    /\ \E b \in BagToSet(bills) : b.month_year = resp.month

\* ------------------------------------------------------ the gate at work

GateResp(u, t, outcome) ==
    [op |-> "access", user |-> u, pg |-> t, outcome |-> outcome]

\* A request by the authenticated user req for a view of the existing PG t that
\* pg_required wraps: what the decorator decides.
access(req, t) ==
    /\ req \in DOMAIN user
    /\ t \in DOMAIN pg
    /\ resp' = GateResp(req, t, pg_required(req, t))
    /\ UNCHANGED <<user, pg, room, profile, bills, proc,
                 deposit, history, issue, session, expense>>

\* CustomUser.is_super_admin: the role field, not the is_superuser flag.
is_super_admin(u) == user[u].role = "super_admin"

\* dashboard_redirect with the two pg_admin denials tested in the other order.
dashboard_redirect_active_first(u) ==
    IF is_super_admin(u) THEN "ADMIN_SITE"
    ELSE IF is_pg_admin(u)
    THEN IF owned_pg(u) # NULL /\ user[u].is_approved
            /\ pg[owned_pg(u)].is_active THEN "PG_DASHBOARD"
         ELSE IF owned_pg(u) # NULL /\ ~pg[owned_pg(u)].is_active
         THEN "DENY_NOT_ACTIVE"
         ELSE IF owned_pg(u) # NULL /\ ~user[u].is_approved
         THEN "DENY_NOT_APPROVED"
         ELSE "DENY_NO_PG"
    ELSE IF is_guest(u)
    THEN IF user[u].pg # NULL /\ user[u].is_approved THEN "GUEST_DASHBOARD"
         ELSE IF user[u].pg # NULL /\ ~user[u].is_approved
         THEN "DENY_GUEST_NOT_APPROVED"
         ELSE "DENY_NO_PG"
    ELSE "DENY_INVALID_ROLE"

\* dashboard_redirect for the authenticated user u: where the view sends the
\* browser, or the message it denies with.  hasattr(user, 'owned_pg') is false
\* when the user owns no PG, so no branch raises.
dashboard_redirect(u) ==
    IF is_super_admin(u) THEN "ADMIN_SITE"
    ELSE IF is_pg_admin(u)
    THEN IF owned_pg(u) # NULL /\ user[u].is_approved
            /\ pg[owned_pg(u)].is_active THEN "PG_DASHBOARD"
         ELSE IF owned_pg(u) # NULL /\ ~user[u].is_approved
         THEN "DENY_NOT_APPROVED"
         ELSE IF owned_pg(u) # NULL /\ ~pg[owned_pg(u)].is_active
         THEN "DENY_NOT_ACTIVE"
         ELSE "DENY_NO_PG"
    ELSE IF is_guest(u)
    THEN IF user[u].pg # NULL /\ user[u].is_approved THEN "GUEST_DASHBOARD"
         ELSE IF user[u].pg # NULL /\ ~user[u].is_approved
         THEN "DENY_GUEST_NOT_APPROVED"
         ELSE "DENY_NO_PG"
    ELSE "DENY_INVALID_ROLE"

\* GET /dashboard/ by the authenticated user req.
dashboard(req) ==
    /\ req \in DOMAIN user
    /\ resp' = [op |-> "dashboard", user |-> req, pg |-> NULL,
                outcome |-> dashboard_redirect(req)]
    /\ UNCHANGED <<user, pg, room, profile, bills, proc,
                 deposit, history, issue, session, expense>>

\* The admin site's user change form: the platform admin sets is_approved.
admin_set_approved(u, v) ==
    /\ u \in DOMAIN user
    /\ user' = [user EXCEPT ![u].is_approved = v]
    /\ resp' = [op |-> "admin_set_approved", user |-> u, pg |-> NULL,
                outcome |-> "ok"]
    /\ UNCHANGED <<pg, room, profile, bills, proc,
                 deposit, history, issue, session, expense>>

\* The admin site's PG change form: the platform admin sets is_active.
admin_set_active(p, v) ==
    /\ p \in DOMAIN pg
    /\ pg' = [pg EXCEPT ![p].is_active = v]
    /\ resp' = [op |-> "admin_set_active", user |-> NULL, pg |-> p,
                outcome |-> "ok"]
    /\ UNCHANGED <<user, room, profile, bills, proc,
                 deposit, history, issue, session, expense>>

\* The platform admin, the owners adminA and adminB (pgB may not be stored, so
\* that adminB owns no PG), each approved or not, each PG active or not, and one
\* more account g1 of any role, tenant reference, approval and superuser flag.
InitGate ==
    /\ \E stored \in {{"pgA"}, {"pgA", "pgB"}} :
          \E act \in [stored -> BOOLEAN] :
             pg = [p \in stored |->
                     [owner |-> IF p = "pgA" THEN "adminA" ELSE "adminB",
                      is_active |-> act[p]]]
    /\ \E apprA \in BOOLEAN, apprB \in BOOLEAN, role \in Roles,
          t \in PGs \cup {NULL}, appr \in BOOLEAN, super \in BOOLEAN :
          user = ("root" :> CustomUser("super_admin", NULL, TRUE, TRUE))
             @@ ("adminA" :> CustomUser("pg_admin", "pgA", apprA, FALSE))
             @@ ("adminB" :> CustomUser("pg_admin", "pgB", apprB, FALSE))
             @@ ("g1" :> CustomUser(role, t, appr, super))
    /\ room = InitRooms
    /\ profile = EmptyFn
    /\ bills = EmptyBag
    /\ proc = EmptyFn
    /\ deposit = EmptyFn
    /\ history = EmptyBag
    /\ issue = EmptyFn
    /\ session = NULL
    /\ expense = EmptyBag
    /\ resp = [op |-> "none", user |-> NULL, pg |-> NULL, outcome |-> "none"]

NextGate ==
    \/ \E req \in Users, t \in PGs : access(req, t)
    \/ \E req \in Users : dashboard(req)
    \/ \E u \in Users, v \in BOOLEAN : admin_set_approved(u, v)
    \/ \E p \in PGs, v \in BOOLEAN : admin_set_active(p, v)

SpecGate == InitGate /\ [][NextGate]_vars

\* ----------------------------------------------------------------------
\* Claims about the access gate, checked under SpecGate
\* ----------------------------------------------------------------------

\* C9: for a requester without platform-admin privilege whose role is
\* pg_admin, pg_required allows access to an existing target PG if and only if
\* the requester owns a PG that is the target, the requester is approved and
\* that PG is active; a pg_admin who is not approved is denied whatever the
\* target.
C9_OwnerGate ==
    \A u \in DOMAIN user, t \in DOMAIN pg :
        (~user[u].is_superuser /\ user[u].role = "pg_admin")
        => /\ (pg_required(u, t) = "ALLOW")
               <=> (/\ pg[t].owner = u
                    /\ user[u].is_approved
                    /\ pg[t].is_active)
           /\ ~user[u].is_approved => pg_required(u, t) # "ALLOW"

\* C9 witness: an approved owner was let into their own active PG, while
\* another pg_admin who is not approved and owns the stored pgB stays out.
C9_Witness ==
    /\ resp.op = "access"
    /\ resp.outcome = "ALLOW"
    /\ user[resp.user].role = "pg_admin"
    /\ ~user[resp.user].is_superuser
    /\ pg[resp.pg].owner = resp.user
    /\ \E u \in DOMAIN user, t \in DOMAIN pg :
          /\ pg[t].owner = u
          /\ pg[t].is_active
          /\ ~user[u].is_approved

\* C10: for a requester without platform-admin privilege whose role is guest,
\* pg_required allows access to an existing target PG if and only if the
\* requester's pg is the target and the requester is approved (so a guest of
\* another tenant is denied, approved or not); a requester whose role is
\* neither pg_admin nor guest is denied for every target.
C10_GuestGate ==
    \A u \in DOMAIN user, t \in DOMAIN pg :
        /\ (~user[u].is_superuser /\ user[u].role = "guest")
           => ((pg_required(u, t) = "ALLOW")
                  <=> (user[u].pg = t /\ user[u].is_approved))
        /\ (~user[u].is_superuser /\ user[u].role \notin {"pg_admin", "guest"})
           => pg_required(u, t) = "FORBIDDEN"

\* C10 witness: an approved guest of one tenant asked for another tenant and
\* got the forbidden response.
C10_Witness ==
    /\ resp.op = "access"
    /\ resp.outcome = "FORBIDDEN"
    /\ user[resp.user].role = "guest"
    /\ ~user[resp.user].is_superuser
    /\ user[resp.user].is_approved
    /\ user[resp.user].pg \in DOMAIN pg
    /\ user[resp.user].pg # resp.pg

\* C11: pg_required allows every platform admin, whether identified by the
\* role super_admin or by the superuser flag, for every existing target PG,
\* whatever the admin's own tenant reference and approval and whatever the
\* target's active flag.
C11_PlatformAdminAllowed ==
    \A u \in DOMAIN user, t \in DOMAIN pg :
        (is_super_admin(u) \/ user[u].is_superuser)
        => pg_required(u, t) = "ALLOW"

\* C12: a pg_admin without the superuser flag who owns a PG, is not approved
\* and whose PG is not active is denied for the approval, never for the
\* activation, by pg_required (for every existing target) and by
\* dashboard_redirect.
C12_NotApprovedBeforeNotActive ==
    \A u \in DOMAIN user :
        (/\ ~user[u].is_superuser
         /\ is_pg_admin(u)
         /\ owned_pg(u) # NULL
         /\ ~user[u].is_approved
         /\ ~pg[owned_pg(u)].is_active)
        => /\ \A t \in DOMAIN pg : pg_required(u, t) = "DENY_NOT_APPROVED"
           /\ dashboard_redirect(u) = "DENY_NOT_APPROVED"

\* C12 witness: an unapproved owner of an inactive PG asked for the dashboard
\* and was denied for the approval.
C12_Witness ==
    /\ resp.op = "dashboard"
    /\ resp.outcome = "DENY_NOT_APPROVED"
    /\ is_pg_admin(resp.user)
    /\ ~user[resp.user].is_approved
    /\ owned_pg(resp.user) # NULL
    /\ ~pg[owned_pg(resp.user)].is_active

\* C13: for a pg_admin without the superuser flag who owns no PG, approved or
\* not, pg_required returns a denial for every existing target PG and never
\* raises.
C13_NoOwnedPgIsDenied ==
    \A u \in DOMAIN user, t \in DOMAIN pg :
        (~user[u].is_superuser /\ is_pg_admin(u) /\ owned_pg(u) = NULL)
        => pg_required(u, t) \in {"DENY_NOT_APPROVED", "DENY_NOT_ACTIVE",
                                  "DENY_GUEST_NOT_APPROVED", "FORBIDDEN"}

\* ----------------------------------------------------------------------
\* Registration: owners and guests sign up, the platform admin approves
\* ----------------------------------------------------------------------

Owners == {"adminA", "adminB"}

\* The save of pg_admin_register that raises IntegrityError, if any: 0 is
\* none, 1 the first user.save, 2 PG.objects.create, 3 the second user.save.
RegisterFailAt == {0, 1, 2, 3}

\* pg_admin_register that creates the PG already activated.
pg_admin_register_active(u, p, k) ==
    /\ p \notin DOMAIN pg
    /\ IF u \in DOMAIN user
       THEN /\ resp' = [op |-> "pg_admin_register", user |-> u, pg |-> NULL,
                        outcome |-> "form_invalid"]
            /\ UNCHANGED <<user, pg>>
       ELSE LET done(step) == k = 0 \/ k > step
            IN
            /\ user' = IF done(3)
                       THEN user @@
                         (u :> CustomUser("pg_admin", p, FALSE, FALSE))
                       ELSE IF done(1)
                       THEN user @@
                         (u :> CustomUser("pg_admin", NULL, FALSE, FALSE))
                       ELSE user
            /\ pg' = IF done(2)
                     THEN pg @@ (p :> [owner |-> u, is_active |-> TRUE])
                     ELSE pg
            /\ resp' = IF k = 0
                       THEN [op |-> "pg_admin_register", user |-> u,
                             pg |-> p, outcome |-> "ok"]
                       ELSE [op |-> "pg_admin_register", user |-> u,
                             pg |-> NULL, outcome |-> "IntegrityError"]
    /\ UNCHANGED <<room, profile, bills, proc,
                 deposit, history, issue, session, expense>>

\* POST /register/pg-admin/ with username u; p is the slug PG.save gives the
\* new PG, one no stored PG has.  The form rejects a username that is taken.
\* The three saves are committed one by one; when save k raises IntegrityError
\* the view catches it and shows the form again, the earlier saves stored.
pg_admin_register(u, p, k) ==
    /\ p \notin DOMAIN pg
    /\ IF u \in DOMAIN user
       THEN /\ resp' = [op |-> "pg_admin_register", user |-> u, pg |-> NULL,
                        outcome |-> "form_invalid"]
            /\ UNCHANGED <<user, pg>>
       ELSE LET done(step) == k = 0 \/ k > step
            IN
            /\ user' = IF done(3)
                       THEN user @@
                         (u :> CustomUser("pg_admin", p, FALSE, FALSE))
                       ELSE IF done(1)
                       THEN user @@
                         (u :> CustomUser("pg_admin", NULL, FALSE, FALSE))
                       ELSE user
            /\ pg' = IF done(2)
                     THEN pg @@ (p :> [owner |-> u, is_active |-> FALSE])
                     ELSE pg
            /\ resp' = IF k = 0
                       THEN [op |-> "pg_admin_register", user |-> u,
                             pg |-> p, outcome |-> "ok"]
                       ELSE [op |-> "pg_admin_register", user |-> u,
                             pg |-> NULL, outcome |-> "IntegrityError"]
    /\ UNCHANGED <<room, profile, bills, proc,
                 deposit, history, issue, session, expense>>

\* The platform admin alone, no PG, no room, nobody registered yet.
InitRegister ==
    /\ user = ("root" :> CustomUser("super_admin", NULL, TRUE, TRUE))
    /\ pg = EmptyFn
    /\ room = EmptyFn
    /\ profile = EmptyFn
    /\ bills = EmptyBag
    /\ proc = EmptyFn
    /\ deposit = EmptyFn
    /\ history = EmptyBag
    /\ issue = EmptyFn
    /\ session = NULL
    /\ expense = EmptyBag
    /\ resp = [op |-> "none", user |-> NULL, pg |-> NULL, outcome |-> "none"]

NextRegister ==
    \/ \E u \in Owners, p \in PGs, k \in RegisterFailAt :
          pg_admin_register(u, p, k)
    \/ \E method \in Methods, p \in PGs, u \in {"g1"} :
          guest_register(method, p, u)
    \/ \E u \in Owners, v \in BOOLEAN : admin_set_approved(u, v)
    \/ \E p \in PGs, v \in BOOLEAN : admin_set_active(p, v)
    \/ \E req \in Owners, t \in PGs : access(req, t)

SpecRegister == InitRegister /\ [][NextRegister]_vars

\* C14: a successful pg_admin_register leaves the new PG inactive and its
\* owner unapproved; from then on pg_required allows the owner into the PG
\* exactly while the owner is approved and the PG is active, so the owner is
\* denied until the platform admin has set both and allowed once both are set.
C14_RegisteredOwnerWaitsForBoth ==
    /\ [](\A p \in DOMAIN pg :
             (pg_required(pg[p].owner, p) = "ALLOW")
             <=> (user[pg[p].owner].is_approved /\ pg[p].is_active))
    /\ [][(resp'.op = "pg_admin_register" /\ resp'.outcome = "ok")
          => \E u \in DOMAIN user' \ DOMAIN user,
                p \in DOMAIN pg' \ DOMAIN pg :
                /\ resp'.user = u
                /\ resp'.pg = p
                /\ user'[u].role = "pg_admin"
                /\ pg'[p].owner = u
                /\ ~pg'[p].is_active
                /\ ~user'[u].is_approved]_vars

\* C14 witness: an owner who registered has been approved, the PG activated,
\* and the gate let the owner in, while another registered owner still waits.
C14_Witness ==
    /\ resp.op = "access"
    /\ resp.outcome = "ALLOW"
    /\ resp.user \in Owners
    /\ pg[resp.pg].owner = resp.user
    /\ \E p \in DOMAIN pg :
          pg_required(pg[p].owner, p) = "DENY_NOT_ACTIVE"

\* ----------------------------------------------------------------------
\* Check-in: the four records of a new guest
\* ----------------------------------------------------------------------

\* adminA checks guests into pgA; any create may fail.
NextCheckIn ==
    \/ \E req \in {"adminA", "adminB"} : guest_check_in(req, "pgA", CheckInAll)
    \/ \E g \in GuestNames : admin_check_out(g)

SpecCheckIn == Init /\ [][NextCheckIn]_vars

\* The GuestHistory rows of guest g in the table tbl, copies counted.
HistoryCount(tbl, g) ==
    BagCardinality([h \in {x \in BagToSet(tbl) : x.guest = g}
                      |-> CopiesIn(h, tbl)])

\* C15: a guest_check_in that succeeds stores a SecurityDeposit for the new
\* guest that is Paid with paid_date equal to the check-in date when
\* deposit_paid was posted, and Pending with no paid_date otherwise, and
\* stores exactly one GuestHistory row for the new guest, with from_date and
\* to_date both the check-in date, the assigned room and the entered rent.
C15_CheckInDepositAndHistory ==
    [][(resp'.op = "guest_check_in" /\ resp'.outcome = "ok")
       => LET f == resp'.form
              g == resp'.form.username
          IN /\ g \notin DOMAIN deposit
             /\ g \in DOMAIN deposit'
             /\ deposit'[g].status
                  = (IF f.deposit_paid THEN "Paid" ELSE "Pending")
             /\ deposit'[g].paid_date
                  = (IF f.deposit_paid THEN f.check_in_date ELSE NULL)
             /\ HistoryCount(history, g) = 0
             /\ HistoryCount(history', g) = 1
             /\ \A h \in BagToSet(history') :
                   h.guest = g
                   => /\ h.from_date = f.check_in_date
                      /\ h.to_date = f.check_in_date
                      /\ h.room = f.room
                      /\ h.room = profile'[g].room
                      /\ h.rent_at_the_time = f.rent_amount]_vars

\* C15 witness: a check-in with the deposit not paid has succeeded; the
\* deposit is Pending and the guest has a history row.
C15_Witness ==
    /\ resp.op = "guest_check_in"
    /\ resp.outcome = "ok"
    /\ ~resp.form.deposit_paid
    /\ deposit[resp.form.username].status = "Pending"
    /\ HistoryCount(history, resp.form.username) = 1

\* C16: after a check-in request has ended, whether it succeeded or failed at
\* any of the four creates, a guest has all of User, GuestProfile,
\* SecurityDeposit and GuestHistory or none of them.
C16_CheckInAllOrNothing ==
    \A g \in GuestNames :
        LET has_user == g \in DOMAIN user
            has_profile == g \in DOMAIN profile
            has_deposit == g \in DOMAIN deposit
            has_history == HistoryCount(history, g) > 0
        IN \/ has_user /\ has_profile /\ has_deposit /\ has_history
           \/ ~has_user /\ ~has_profile /\ ~has_deposit /\ ~has_history

\* ----------------------------------------------------------------------
\* Claims about guest self-registration, checked under SpecRegister
\* ----------------------------------------------------------------------

LoginResp(u, p, outcome, valid, logged_in) ==
    [op |-> "pg_login", user |-> u, pg |-> p, outcome |-> outcome,
     valid |-> valid, logged_in |-> logged_in]

\* pg_login that logs every authenticated user in, whatever their tenant.
pg_login_any_tenant(method, p, u, password_ok) ==
    /\ p \in DOMAIN pg
    /\ LET valid == u \in DOMAIN user /\ password_ok
       IN IF ~pg[p].is_active
          THEN /\ resp' = LoginResp(u, p, "not_active", valid, FALSE)
               /\ UNCHANGED session
          ELSE IF method # "POST"
          THEN /\ resp' = LoginResp(u, p, "form_shown", valid, FALSE)
               /\ UNCHANGED session
          ELSE IF ~valid
          THEN /\ resp' = LoginResp(u, p, "invalid_credentials", valid, FALSE)
               /\ UNCHANGED session
          ELSE /\ session' = u
               /\ resp' = LoginResp(u, p,
                    IF is_pg_admin(u) /\ user[u].is_approved /\ pg[p].is_active
                    THEN "PG_DASHBOARD"
                    ELSE IF is_pg_admin(u) /\ ~user[u].is_approved
                    THEN "pending_approval"
                    ELSE IF is_pg_admin(u) /\ ~pg[p].is_active
                    THEN "not_activated"
                    ELSE IF is_guest(u) /\ user[u].is_approved
                    THEN "GUEST_DASHBOARD"
                    ELSE IF is_guest(u) /\ ~user[u].is_approved
                    THEN "pending_guest_approval"
                    ELSE "login_page",
                    valid, TRUE)
    /\ UNCHANGED <<user, pg, room, profile, bills, proc,
                 deposit, history, issue, expense>>

\* GET or POST <pg>/login/ with username u and a password that is the user's
\* (password_ok) or not: authenticate, the tenant test, login, the redirect.
pg_login(method, p, u, password_ok) ==
    /\ p \in DOMAIN pg
    /\ LET valid == u \in DOMAIN user /\ password_ok
       IN IF ~pg[p].is_active
          THEN /\ resp' = LoginResp(u, p, "not_active", valid, FALSE)
               /\ UNCHANGED session
          ELSE IF method # "POST"
          THEN /\ resp' = LoginResp(u, p, "form_shown", valid, FALSE)
               /\ UNCHANGED session
          ELSE IF ~valid
          THEN /\ resp' = LoginResp(u, p, "invalid_credentials", valid, FALSE)
               /\ UNCHANGED session
          ELSE IF user[u].pg # p
          THEN /\ resp' = LoginResp(u, p, "not_associated", valid, FALSE)
               /\ UNCHANGED session
          ELSE /\ session' = u
               /\ resp' = LoginResp(u, p,
                    IF is_pg_admin(u) /\ user[u].is_approved /\ pg[p].is_active
                    THEN "PG_DASHBOARD"
                    ELSE IF is_pg_admin(u) /\ ~user[u].is_approved
                    THEN "pending_approval"
                    ELSE IF is_pg_admin(u) /\ ~pg[p].is_active
                    THEN "not_activated"
                    ELSE IF is_guest(u) /\ user[u].is_approved
                    THEN "GUEST_DASHBOARD"
                    ELSE IF is_guest(u) /\ ~user[u].is_approved
                    THEN "pending_guest_approval"
                    ELSE "login_page",
                    valid, TRUE)
    /\ UNCHANGED <<user, pg, room, profile, bills, proc,
                 deposit, history, issue, expense>>

NextLogin ==
    \/ \E method \in Methods, p \in PGs, u \in Users, ok \in BOOLEAN :
          pg_login(method, p, u, ok)
    \/ \E p \in PGs, v \in BOOLEAN : admin_set_active(p, v)

SpecLogin == InitGate /\ [][NextLogin]_vars

\* C18: pg_login for the PG t logs a user in only when the posted
\* credentials are valid and the user's pg is t; credentials of a user of
\* another PG or of none never give a session or a redirect to a dashboard of
\* t; and nobody is logged in while t is not active.  A request that does not
\* log in leaves the session as it was.
C18_LoginOnlyOwnTenant ==
    [][resp'.op = "pg_login"
       => LET t == resp'.pg
              u == resp'.user
          IN /\ (\/ resp'.logged_in
                 \/ session' # session
                 \/ resp'.outcome \in {"PG_DASHBOARD", "GUEST_DASHBOARD"})
                => /\ resp'.valid
                   /\ u \in DOMAIN user
                   /\ user[u].pg = t
                   /\ pg[t].is_active
                   /\ session' = u
             /\ ~resp'.logged_in => session' = session]_vars

\* C18 witness: a user logged in to their own PG, after which valid
\* credentials of a user of another PG were turned away and the session stayed.
C18_Witness ==
    /\ resp.op = "pg_login"
    /\ resp.outcome = "not_associated"
    /\ resp.valid
    /\ user[resp.user].pg \in DOMAIN pg
    /\ user[resp.user].pg # resp.pg
    /\ session # NULL
    /\ session # resp.user
    /\ user[session].pg \in DOMAIN pg

\* ----------------------------------------------------------------------
\* Issues
\* ----------------------------------------------------------------------

Issues == {"i1", "i2"}

\* The keys of Issue.STATUS_CHOICES.
Issue_STATUS_CHOICES == {"open", "in_progress", "resolved", "closed"}

\* What a request posts as status: a key, a display label, something else, or
\* nothing (NULL).
PostedStatuses == Issue_STATUS_CHOICES \cup {"Resolved", "bogus", NULL}

PostedNotes == {"", "fixed"}

\* Issue.get_status_display: the label STATUS_CHOICES gives the value.
Issue_get_status_display(status) ==
    IF status = "open" THEN "Open"
    ELSE IF status = "in_progress" THEN "In Progress"
    ELSE IF status = "resolved" THEN "Resolved"
    ELSE IF status = "closed" THEN "Closed"
    ELSE status

IssueResp(p, i, st, notes, outcome, success, new_status) ==
    [op |-> "update_issue_status", pg |-> p, issue |-> i,
     posted |-> [status |-> st, resolution_notes |-> notes],
     outcome |-> outcome, success |-> success, new_status |-> new_status]

\* update_issue_status that stores whatever status is posted.
update_issue_status_unvalidated(req, p, i, st, notes) ==
    /\ req \in DOMAIN user
    /\ p \in DOMAIN pg
    /\ i \in DOMAIN issue
    /\ LET gate == pg_required(req, p)
           saved == [issue[i] EXCEPT
                       !.status = st,
                       !.resolution_notes = IF notes # "" THEN notes ELSE @,
                       !.resolved_at = IF st = "resolved" THEN "now" ELSE @]
       IN IF gate # "ALLOW"
          THEN /\ resp' = IssueResp(p, i, st, notes, gate, FALSE, NULL)
               /\ UNCHANGED issue
          ELSE IF user[issue[i].guest].pg # p
          THEN /\ resp' = IssueResp(p, i, st, notes, "not_found", FALSE, NULL)
               /\ UNCHANGED issue
          ELSE /\ issue' = [issue EXCEPT ![i] = saved]
               /\ resp' = IssueResp(p, i, st, notes, "ok", TRUE,
                                    Issue_get_status_display(saved.status))
    /\ UNCHANGED <<user, pg, room, profile, bills, proc,
                 deposit, history, session, expense>>

\* POST <pg>/ajax/update-issue/<id>/ by requester req for the issue i, posting
\* the status st and the resolution notes.
update_issue_status(req, p, i, st, notes) ==
    /\ req \in DOMAIN user
    /\ p \in DOMAIN pg
    /\ i \in DOMAIN issue
    /\ LET gate == pg_required(req, p)
           saved == [issue[i] EXCEPT
                       !.status = st,
                       !.resolution_notes = IF notes # "" THEN notes ELSE @,
                       !.resolved_at = IF st = "resolved" THEN "now" ELSE @]
       IN IF gate # "ALLOW"
          THEN /\ resp' = IssueResp(p, i, st, notes, gate, FALSE, NULL)
               /\ UNCHANGED issue
          ELSE IF user[issue[i].guest].pg # p
          THEN /\ resp' = IssueResp(p, i, st, notes, "not_found", FALSE, NULL)
               /\ UNCHANGED issue
          ELSE IF st \in Issue_STATUS_CHOICES
          THEN /\ issue' = [issue EXCEPT ![i] = saved]
               /\ resp' = IssueResp(p, i, st, notes, "ok", TRUE,
                                    Issue_get_status_display(saved.status))
          ELSE /\ resp' = IssueResp(p, i, st, notes, "invalid_status", FALSE,
                                    NULL)
               /\ UNCHANGED issue
    /\ UNCHANGED <<user, pg, room, profile, bills, proc,
                 deposit, history, session, expense>>

\* g1 lives in pgA and g2 in pgB; each has reported one issue, still open.
InitIssue ==
    /\ user = InitUsers
         @@ ("g1" :> CustomUser("guest", "pgA", TRUE, FALSE))
         @@ ("g2" :> CustomUser("guest", "pgB", TRUE, FALSE))
    /\ pg = InitPGs
    /\ room = InitRooms
    /\ profile = ("g1" :> [room |-> "r1", rent_amount |-> 0,
                           check_out_date |-> NULL])
         @@ ("g2" :> [room |-> "r2", rent_amount |-> 0,
                      check_out_date |-> NULL])
    /\ bills = EmptyBag
    /\ proc = EmptyFn
    /\ deposit = EmptyFn
    /\ history = EmptyBag
    /\ issue = [i \in Issues |->
                  [guest |-> IF i = "i1" THEN "g1" ELSE "g2",
                   status |-> "open", resolution_notes |-> "",
                   resolved_at |-> NULL]]
    /\ session = NULL
    /\ expense = EmptyBag
    /\ resp = IssueResp(NULL, NULL, NULL, "", "none", FALSE, NULL)

NextIssue ==
    \E req \in {"adminA", "g1"}, p \in PGs, i \in Issues,
       st \in PostedStatuses, notes \in PostedNotes :
       update_issue_status(req, p, i, st, notes)

SpecIssue == InitIssue /\ [][NextIssue]_vars

\* C20: update_issue_status with a posted status outside open, in_progress,
\* resolved and closed answers success false and leaves the issue's status,
\* resolution_notes and resolved_at as they were; so the status of every
\* issue is always one of the four values.
C20_IssueStatusValidated ==
    /\ [](\A i \in DOMAIN issue :
             issue[i].status \in {"open", "in_progress", "resolved", "closed"})
    /\ [][(/\ resp'.op = "update_issue_status"
           /\ resp'.outcome \in {"ok", "invalid_status"}
           /\ resp'.posted.status
                \notin {"open", "in_progress", "resolved", "closed"})
          => /\ ~resp'.success
             /\ \A i \in DOMAIN issue :
                   /\ issue'[i].status = issue[i].status
                   /\ issue'[i].resolution_notes = issue[i].resolution_notes
                   /\ issue'[i].resolved_at = issue[i].resolved_at]_vars

\* C20 witness: an issue that was resolved and then put back in progress,
\* without notes, was sent the label "Resolved" (no key) with notes; the answer
\* is a failure and the issue still reads in_progress, without notes.
C20_Witness ==
    /\ resp.op = "update_issue_status"
    /\ resp.outcome = "invalid_status"
    /\ ~resp.success
    /\ resp.posted.status = "Resolved"
    /\ resp.posted.resolution_notes = "fixed"
    /\ issue[resp.issue].status = "in_progress"
    /\ issue[resp.issue].resolution_notes = ""
    /\ issue[resp.issue].resolved_at = "now"

\* C21: for every issue, after any sequence of update_issue_status calls,
\* reopening a resolved issue included, resolved_at is set if and only if the
\* issue's status is resolved.
C21_ResolvedAtIffResolved ==
    \A i \in DOMAIN issue :
        (issue[i].resolved_at # NULL) <=> (issue[i].status = "resolved")

\* ----------------------------------------------------------------------
\* PG slugs.  In this specification the key of a pg row is the primary key
\* and the row carries the name and the slug PG.save gave it.
\* ----------------------------------------------------------------------

\* The PG names posted: two that slugify alike up to a counter suffix and one
\* with no letter or digit.
PGNames == {"Sunrise", "Sunrise 1", "!!!"}

\* A slug is the sequence of its parts between hyphens: <<"sunrise">> reads
\* sunrise, <<"sunrise", 1>> reads sunrise-1 and <<"", 1>> reads -1.
EmptySlug == <<"">>

\* django.utils.text.slugify on the names posted.
slugify(name) ==
    IF name = "Sunrise" THEN <<"sunrise">>
    ELSE IF name = "Sunrise 1" THEN <<"sunrise", 1>>
    ELSE EmptySlug

\* The while loop of PG.save, entered with the candidate slug and the counter:
\* while a stored PG has the candidate, the candidate becomes base-counter and
\* the counter goes up.
RECURSIVE free_slug(_, _, _, _)
free_slug(base, slug, counter, taken) ==
    IF slug \in taken
    THEN free_slug(base, Append(base, counter), counter + 1, taken)
    ELSE slug

\* The slugs of the stored PGs.
stored_slugs == {pg[k].slug : k \in DOMAIN pg}

\* PG.save on the row: a row whose slug is empty gets a generated one.
PG_save(row) ==
    IF row.slug = EmptySlug
    THEN [row EXCEPT !.slug = free_slug(slugify(row.name), slugify(row.name), 1,
                                        stored_slugs)]
    ELSE row

\* PG.objects.create of pg_admin_register for the owner u, a user who owns no
\* PG yet: the row is saved under the new primary key k.
PG_objects_create(k, name, u) ==
    /\ k \notin DOMAIN pg
    /\ u \in DOMAIN user
    /\ owned_pg(u) = NULL
    /\ pg' = pg @@ (k :> PG_save([owner |-> u, is_active |-> FALSE,
                                  name |-> name, slug |-> EmptySlug]))
    /\ resp' = [op |-> "PG_objects_create", user |-> u, pg |-> k,
                outcome |-> "ok"]
    /\ UNCHANGED <<user, room, profile, bills, proc,
                 deposit, history, issue, session, expense>>

\* The admin site's PG change form posted with the stored name and slug and
\* is_active set to v: the row is saved again.
admin_save_pg(k, v) ==
    /\ k \in DOMAIN pg
    /\ pg' = [pg EXCEPT ![k] = PG_save([pg[k] EXCEPT !.is_active = v])]
    /\ resp' = [op |-> "admin_save_pg", user |-> NULL, pg |-> k,
                outcome |-> "ok"]
    /\ UNCHANGED <<user, room, profile, bills, proc,
                 deposit, history, issue, session, expense>>

\* The platform admin and two registered owners, no PG stored yet.
InitSlug ==
    /\ user = ("root" :> CustomUser("super_admin", NULL, TRUE, TRUE))
         @@ ("adminA" :> CustomUser("pg_admin", NULL, FALSE, FALSE))
         @@ ("adminB" :> CustomUser("pg_admin", NULL, FALSE, FALSE))
    /\ pg = EmptyFn
    /\ room = EmptyFn
    /\ profile = EmptyFn
    /\ bills = EmptyBag
    /\ proc = EmptyFn
    /\ deposit = EmptyFn
    /\ history = EmptyBag
    /\ issue = EmptyFn
    /\ session = NULL
    /\ expense = EmptyBag
    /\ resp = [op |-> "none", user |-> NULL, pg |-> NULL, outcome |-> "none"]

NextSlug ==
    \/ \E k \in PGs, name \in PGNames, u \in Owners :
          PG_objects_create(k, name, u)
    \/ \E k \in PGs, v \in BOOLEAN : admin_save_pg(k, v)

SpecSlug == InitSlug /\ [][NextSlug]_vars

\* C22: no two PGs ever share a slug, and once a PG has been saved its slug
\* does not change on any later save of that PG, for every PG name (a name
\* that slugifies to the empty string and a name another PG has included).
C22_SlugUniqueAndStable ==
    [][/\ \A j \in DOMAIN pg', k \in DOMAIN pg' :
             j # k => pg'[j].slug # pg'[k].slug
       /\ \A k \in DOMAIN pg : pg'[k].slug = pg[k].slug]_vars

\* ----------------------------------------------------------------------
\* More claims about registration, checked under SpecRegister
\* ----------------------------------------------------------------------

\* C23: after a registration request has ended, whether it succeeded or
\* failed part-way, every user with role pg_admin or guest has a tenant
\* reference (pg is not null), and a stored pg_admin stays a pg_admin.
C23_TenantReferenceSet ==
    [][/\ \A u \in DOMAIN user' :
             user'[u].role \in {"pg_admin", "guest"} => user'[u].pg # NULL
       /\ \A u \in DOMAIN user :
             user[u].role = "pg_admin" => user'[u].role = "pg_admin"]_vars

\* ----------------------------------------------------------------------
\* The month key of generate_bills as it is posted
\* ----------------------------------------------------------------------

\* What a request posts as month_year: keys in YYYY-MM form, a month out of
\* range, a word, or nothing (NULL).
PostedMonths == {"2024-03", "2024-12", "2024-13", "March", NULL}

\* The exception datetime.strptime(month_year, '%Y-%m') raises, or "none":
\* ValueError for a string of another form, TypeError for None.
strptime_raises(posted) ==
    IF posted = NULL THEN "TypeError"
    ELSE IF posted \in {"2024-03", "2024-12"} THEN "none"
    ELSE "ValueError"

\* datetime.strptime(month_year, '%Y-%m').date() for a key that parses.
strptime(posted) ==
    IF posted = "2024-03" THEN <<2024, 3>> ELSE <<2024, 12>>

\* The response of generate_bills to a month key that did not parse.
MonthResp(p, outcome, posted) ==
    [op |-> "generate_bills", pg |-> p, month |-> NoMonth,
     outcome |-> outcome, count |-> 0, posted |-> posted]

\* POST <pg>/billing/generate/ with the month key as posted.  A ValueError of
\* strptime is caught, and the except branch then reads the undefined name
\* pg_id, which raises NameError; a TypeError is not caught.
generate_bills_post(req, p, posted) ==
    IF req \in DOMAIN user /\ p \in DOMAIN pg
       /\ pg_required(req, p) = "ALLOW" /\ strptime_raises(posted) # "none"
    THEN /\ resp' = MonthResp(p, IF strptime_raises(posted) = "ValueError"
                                 THEN "NameError" ELSE "TypeError", posted)
         /\ UNCHANGED <<user, pg, room, profile, bills, proc,
                      deposit, history, issue, session, expense>>
    ELSE generate_bills(req, p, strptime(posted))

\* What a request posts as paid_amount: decimal numerals, a word, or nothing.
PostedAmounts == {"0", "1", "-1", "abc", NULL}

\* The exception Decimal(paid_amount) raises, or "none": TypeError for None,
\* decimal.InvalidOperation (an ArithmeticError) for a string that is no number.
Decimal_raises(posted) ==
    IF posted = NULL THEN "TypeError"
    ELSE IF posted \in {"0", "1", "-1"} THEN "none"
    ELSE "InvalidOperation"

\* Decimal(paid_amount) for a numeral.
Decimal(posted) ==
    IF posted = "1" THEN 1 ELSE IF posted = "-1" THEN 0 - 1 ELSE 0

\* The answer of update_bill_payment to a paid_amount that did not convert:
\* the JSON of the except branch, or the exception that left the view.
AmountResp(p, b, outcome, success, posted) ==
    [op |-> "update_bill_payment", pg |-> p, month |-> b.month_year,
     outcome |-> outcome, count |-> 0, guest |-> b.guest,
     posted |-> [paid_amount |-> posted], success |-> success]

\* POST <pg>/ajax/update-bill/<id>/ with the paid_amount as posted.  The view
\* catches ValueError and TypeError only.
update_bill_payment_post(req, p, b, posted, method) ==
    IF req \in DOMAIN user /\ p \in DOMAIN pg /\ BagIn(b, bills)
       /\ user[b.guest].pg = p
       /\ pg_required(req, p) = "ALLOW" /\ Decimal_raises(posted) # "none"
    THEN /\ resp' = IF Decimal_raises(posted) \in {"ValueError", "TypeError"}
                    THEN AmountResp(p, b, "invalid_amount", FALSE, posted)
                    ELSE AmountResp(p, b, Decimal_raises(posted), FALSE,
                                    posted)
         /\ UNCHANGED <<user, pg, room, profile, bills, proc,
                      deposit, history, issue, session, expense>>
    ELSE update_bill_payment(req, p, b, Decimal(posted), method)

NextPosted ==
    \/ \E req \in {"adminA", "adminB"}, posted \in PostedMonths :
          generate_bills_post(req, "pgA", posted)
    \/ \E req \in {"adminA", "adminB"}, b \in BagToSet(bills),
          posted \in PostedAmounts :
          update_bill_payment_post(req, "pgA", b, posted, "cash")

SpecPosted == InitBilling /\ [][NextPosted]_vars

\* C24: generate_bills with a month_year that is missing or not of the form
\* YYYY-MM creates no bill, changes no record, and ends with the message
\* 'Invalid month format.' and a redirect to the billing page, not with an
\* unhandled exception.
C24_InvalidMonthRedirects ==
    [][(/\ resp'.op = "generate_bills"
        /\ resp'.month = NoMonth
        /\ resp'.outcome \in {"invalid_month", "NameError", "TypeError",
                              "ValueError"})
       => /\ resp'.outcome = "invalid_month"
          /\ bills' = bills
          /\ UNCHANGED <<user, pg, room, profile, deposit, history,
                         issue>>]_vars

\* C25: update_bill_payment with a paid_amount that is missing or is no valid
\* decimal number answers success false with the error 'Invalid amount' and
\* leaves the stored bill as it was.
C25_InvalidAmountRejected ==
    [][(/\ resp'.op = "update_bill_payment"
        /\ resp'.outcome \in {"invalid_amount", "InvalidOperation",
                              "TypeError", "ValueError"})
       => /\ resp'.outcome = "invalid_amount"
          /\ ~resp'.success
          /\ bills' = bills]_vars

\* ----------------------------------------------------------------------
\* Two tenants side by side
\* ----------------------------------------------------------------------

\* The most Expense rows the tenants specification stores.
MaxExpenses == 1

ExpenseResp(p, req, outcome) ==
    [op |-> "expense_tracking", pg |-> p, user |-> req, outcome |-> outcome]

\* POST <pg>/expenses/ by requester req with a valid ExpenseForm of the
\* amount: the expense is stored for the PG of the URL.
expense_tracking(req, p, amount) ==
    /\ req \in DOMAIN user
    /\ p \in DOMAIN pg
    /\ BagCardinality(expense) < MaxExpenses
    /\ LET gate == pg_required(req, p)
       IN IF gate # "ALLOW"
          THEN /\ resp' = ExpenseResp(p, req, gate)
               /\ UNCHANGED expense
          ELSE /\ expense' = expense (+) SetToBag(
                    {[pg |-> p, amount |-> amount, created_by |-> req]})
               /\ resp' = ExpenseResp(p, req, "ok")
    /\ UNCHANGED <<user, pg, room, profile, bills, proc,
                 deposit, history, issue, session>>

\* pgA and pgB with their approved owners; g2 lives in pgB with a deposit, a
\* history row, a bill, an issue and an expense of pgB; pgA has no guest yet.
InitTenants ==
    /\ user = InitUsers @@ ("g2" :> CustomUser("guest", "pgB", TRUE, FALSE))
    /\ pg = InitPGs
    /\ room = InitRooms
    /\ profile = ("g2" :> [room |-> "r2", rent_amount |-> 1,
                           check_out_date |-> NULL])
    /\ bills = SetToBag({MonthlyBill_create("g2", BillingMonth, 1,
                                            due_date_for(BillingMonth))})
    /\ proc = EmptyFn
    /\ deposit = ("g2" :> SecurityDeposit_create(0, TRUE, "2024-03-01"))
    /\ history = SetToBag({GuestHistory_create("g2", "r2", 1, "2024-03-01")})
    /\ issue = ("i2" :> [guest |-> "g2", status |-> "open",
                         resolution_notes |-> "", resolved_at |-> NULL])
    /\ session = NULL
    /\ expense = EmptyBag
    /\ resp = Resp("none", NULL, NoMonth, "none", 0)

\* Every request is made by the owner of pgA or by g1, once adminA has checked
\* g1 in to pgA, and is addressed to either PG.
NextTenants ==
    \/ \E req \in {"adminA", "g1"}, p \in PGs, b \in BagToSet(bills),
          paid \in Amounts :
          update_bill_payment(req, p, b, paid, "cash")
    \/ \E req \in {"adminA", "g1"}, p \in PGs, i \in Issues,
          st \in {"resolved", "bogus"} :
          update_issue_status(req, p, i, st, "fixed")
    \/ \E req \in {"adminA", "g1"}, p \in PGs :
          generate_bills(req, p, BillingMonth)
    \/ \E req \in {"adminA", "g1"}, p \in PGs :
          guest_check_in(req, p, CheckInDefaults)
    \/ \E req \in {"adminA", "g1"}, p \in PGs, amount \in Rents :
          expense_tracking(req, p, amount)

SpecTenants == InitTenants /\ [][NextTenants]_vars

\* The records that belong to the PG p: its guests, their profiles, deposits,
\* history rows, bills and issues, and its expenses.
RecordsOf(p, us, pr, de, hi, bi, is, ex) ==
    LET gs == {u \in DOMAIN us : us[u].pg = p}
    IN [users |-> [u \in gs |-> us[u]],
        profiles |-> [u \in gs \cap DOMAIN pr |-> pr[u]],
        deposits |-> [u \in gs \cap DOMAIN de |-> de[u]],
        history |-> {<<h, CopiesIn(h, hi)>> :
                        h \in {x \in BagToSet(hi) : x.guest \in gs}},
        bills |-> {<<b, CopiesIn(b, bi)>> :
                      b \in {x \in BagToSet(bi) : x.guest \in gs}},
        issues |-> [i \in {j \in DOMAIN is : is[j].guest \in gs} |-> is[i]],
        expenses |-> {<<e, CopiesIn(e, ex)>> :
                         e \in {x \in BagToSet(ex) : x.pg = p}}]

\* C26: no request of a requester who is no platform admin and is associated
\* with pgA only (update_bill_payment, update_issue_status, generate_bills,
\* guest_check_in, expense_tracking, addressed to either PG) changes or
\* creates a bill, issue, guest, deposit, history row or expense of pgB.
C26_TenantWritesIsolated ==
    [][RecordsOf("pgB", user', profile', deposit', history', bills', issue',
                 expense')
         = RecordsOf("pgB", user, profile, deposit, history, bills, issue,
                     expense)]_vars

\* C26 witness: the guest of pgA addressed a bill request to pgB and was
\* refused, after pgA got a guest, a bill and an expense of its own.
C26_Witness ==
    /\ resp.op = "update_bill_payment"
    /\ resp.pg = "pgB"
    /\ resp.outcome = "FORBIDDEN"
    /\ "g1" \in DOMAIN profile
    /\ \E b \in BagToSet(bills) : b.guest = "g1"
    /\ \E x \in BagToSet(expense) : x.pg = "pgA"

\* ----------------------------------------------------------------------
\* The administrative views requested by a guest
\* ----------------------------------------------------------------------

\* Every request is made by g1, an approved guest of pgA, and is addressed to
\* either PG.
NextGuestWrites ==
    \/ \E p \in PGs, b \in BagToSet(bills), paid \in Amounts :
          update_bill_payment("g1", p, b, paid, "cash")
    \/ \E p \in PGs : generate_bills("g1", p, BillingMonth)
    \/ \E p \in PGs : guest_check_in("g1", p, CheckInDefaults)

SpecGuestWrites == InitBilling /\ [][NextGuestWrites]_vars

\* C27: a requester with role guest, even approved and belonging to the PG,
\* never causes an administrative write: no update_bill_payment of theirs
\* changes a bill, no generate_bills of theirs creates one and no
\* guest_check_in of theirs creates a guest (these writes need a platform
\* admin or the approved owner of the active PG).
C27_GuestsCauseNoAdminWrites ==
    [][/\ bills' = bills
       /\ user' = user
       /\ profile' = profile
       /\ deposit' = deposit
       /\ history' = history]_vars

\* ----------------------------------------------------------------------
\* Occupancy, checked under Spec
\* ----------------------------------------------------------------------

\* pg.room_set.count()
total_rooms(p) == Cardinality({r \in DOMAIN room : room[r].pg = p})

\* room_set.filter(guestprofile__isnull=False,
\* guestprofile__check_out_date__isnull=True).count(): the filter joins the
\* rooms of the PG with their guest profiles and has no distinct(), so it
\* counts one row for each active guest of each room.
occupied_rooms(p) ==
    Cardinality({<<r, g>> \in (DOMAIN room) \X (DOMAIN profile) :
                    /\ room[r].pg = p
                    /\ profile[g].room = r
                    /\ profile[g].check_out_date = NULL})

\* PG.get_occupancy_rate in hundredths of a percent:
\* round(occupied_rooms / total_rooms * 100, 2).
get_occupancy_rate(p) ==
    IF total_rooms(p) = 0 THEN 0
    ELSE (occupied_rooms(p) * 20000 + total_rooms(p)) \div (2 * total_rooms(p))

\* C28: for every PG the occupied-room count that get_occupancy_rate and the
\* admin dashboard use is at most the PG's number of rooms, so the rate is
\* between 0 and 100 percent, also when a room holds several active guests.
C28_OccupancyRateWithinBounds ==
    \A p \in DOMAIN pg :
        /\ occupied_rooms(p) <= total_rooms(p)
        /\ get_occupancy_rate(p) >= 0
        /\ get_occupancy_rate(p) <= 10000

\* ----------------------------------------------------------------------
\* Login and approval, checked under SpecLogin
\* ----------------------------------------------------------------------

\* C29: pg_login never logs in a user whose is_approved is false: for a
\* pg_admin or guest of the target PG with valid credentials and is_approved
\* false the request ends with the user not logged in.
C29_UnapprovedNeverLoggedIn ==
    [][(/\ resp'.op = "pg_login"
        /\ resp'.user \in DOMAIN user
        /\ user[resp'.user].role \in {"pg_admin", "guest"}
        /\ ~user[resp'.user].is_approved)
       => /\ ~resp'.logged_in
          /\ session' = session]_vars

=============================================================================
